---------------------------- MODULE Spec2Model ----------------------------
(***************************************************************************)
(* The SQLite-backed recipe store of kptncook                               *)
(* (src/src/kptncook/repositories.py): the three tables, the upserts that   *)
(* add and add_list run inside one sqlite3 connection context, the backup   *)
(* copy, and the read operations list, get, list_ingredients and            *)
(* needs_to_be_synced.                                                      *)
(*                                                                          *)
(* Text is a sequence of one-character strings, so that lower-casing,       *)
(* whitespace splitting, zero padding and the byte order SQLite sorts TEXT  *)
(* by are computed and not assumed.  Python values are tagged records; a    *)
(* dict is its sequence of (key, value) items in insertion order.           *)
(***************************************************************************)
EXTENDS Integers, Sequences, FiniteSets, TLC

VARIABLES
    db,       \* the database file: the committed rows of the three tables
    backup,   \* the backup file: <<>> while absent, else <<a copy of db>>
    last,     \* the most recent call: its arguments and its outcome
    added,    \* the recipe ids of every recipe a completed call has added
    txn       \* the call inside its with block: <<>>, or <<its connection>>

vars == <<db, backup, last, added, txn>>

---------------------------------------------------------------------------
(* Text *)

UpperChars == <<"A","B","C","D","E","F","G","H","I","J","K","L","M",
                "N","O","P","Q","R","S","T","U","V","W","X","Y","Z">>

LowerChars == <<"a","b","c","d","e","f","g","h","i","j","k","l","m",
                "n","o","p","q","r","s","t","u","v","w","x","y","z">>

DigitChars == <<"0","1","2","3","4","5","6","7","8","9">>

\* The characters of the model in code point order: the order of str
\* comparison in Python and of the BINARY collation of SQLite.
CodePoints == <<"\t", " ", "-">> \o DigitChars \o UpperChars \o <<"_">> \o LowerChars

Code(c) == CHOOSE i \in DOMAIN CodePoints : CodePoints[i] = c

\* a < b for two texts, byte by byte, a proper prefix first.
StrLess(a, b) ==
    \E k \in 0..Len(a) :
        /\ k <= Len(b)
        /\ \A i \in 1..k : a[i] = b[i]
        /\ \/ k = Len(a) /\ k < Len(b)
           \/ k < Len(a) /\ k < Len(b) /\ Code(a[k + 1]) < Code(b[k + 1])

\* str.lower()
LowerChar(c) ==
    IF \E i \in DOMAIN UpperChars : UpperChars[i] = c
    THEN LowerChars[CHOOSE i \in DOMAIN UpperChars : UpperChars[i] = c]
    ELSE c

lower(s) == [i \in DOMAIN s |-> LowerChar(s[i])]

IsSpace(c) == c \in {" ", "\t"}

\* str.split(): the maximal runs of non-whitespace characters, in order.
RECURSIVE SplitFrom(_, _, _, _)
SplitFrom(s, i, word, words) ==
    IF i > Len(s)
    THEN IF word = <<>> THEN words ELSE Append(words, word)
    ELSE IF IsSpace(s[i])
         THEN SplitFrom(s, i + 1, <<>>,
                        IF word = <<>> THEN words ELSE Append(words, word))
         ELSE SplitFrom(s, i + 1, Append(word, s[i]), words)

split(s) == SplitFrom(s, 1, <<>>, <<>>)

\* sep.join(words)
RECURSIVE join(_, _)
join(sep, words) ==
    IF words = <<>> THEN <<>>
    ELSE IF Len(words) = 1 THEN words[1]
    ELSE words[1] \o sep \o join(sep, Tail(words))

---------------------------------------------------------------------------
(* Python values *)

None == [t |-> "None"]
PyStr(s) == [t |-> "str", s |-> s]
PyInt(n) == [t |-> "int", n |-> n]
PyList(elems) == [t |-> "list", elems |-> elems]
PyDict(items) == [t |-> "dict", items |-> items]

\* bool(v)
Truthy(v) ==
    CASE v.t = "None" -> FALSE
      [] v.t = "str"  -> v.s # <<>>
      [] v.t = "int"  -> v.n # 0
      [] v.t = "list" -> v.elems # <<>>
      [] v.t = "dict" -> v.items # <<>>

\* d[key] of a dict that has the key
dict_item(d, key) ==
    d.items[CHOOSE i \in DOMAIN d.items : d.items[i][1] = key][2]

\* d.get(key, default)
dict_get(d, key, default) ==
    IF \E i \in DOMAIN d.items : d.items[i][1] = key
    THEN dict_item(d, key)
    ELSE default

---------------------------------------------------------------------------
(* json.dumps and json.loads: a document and its text, as a token sequence *)

Tok(k) == [k |-> k]

RECURSIVE json_dumps(_), DumpElems(_), DumpItems(_)
json_dumps(v) ==
    CASE v.t = "None" -> <<Tok("null")>>
      [] v.t = "str"  -> <<[k |-> "string", s |-> v.s]>>
      [] v.t = "int"  -> <<[k |-> "number", n |-> v.n]>>
      [] v.t = "list" -> <<Tok("[")>> \o DumpElems(v.elems) \o <<Tok("]")>>
      [] v.t = "dict" -> <<Tok("{")>> \o DumpItems(v.items) \o <<Tok("}")>>

DumpElems(elems) ==
    IF elems = <<>> THEN <<>>
    ELSE json_dumps(Head(elems))
         \o (IF Len(elems) > 1 THEN <<Tok(",")>> ELSE <<>>)
         \o DumpElems(Tail(elems))

DumpItems(items) ==
    IF items = <<>> THEN <<>>
    ELSE <<[k |-> "key", name |-> Head(items)[1]], Tok(":")>>
         \o json_dumps(Head(items)[2])
         \o (IF Len(items) > 1 THEN <<Tok(",")>> ELSE <<>>)
         \o DumpItems(Tail(items))

\* The parser returns the value read at token i and the index after it.
RECURSIVE ParseValue(_, _), ParseElems(_, _, _), ParseItems(_, _, _)
ParseValue(toks, i) ==
    LET tk == toks[i] IN
    CASE tk.k = "null"   -> [v |-> None, next |-> i + 1]
      [] tk.k = "string" -> [v |-> PyStr(tk.s), next |-> i + 1]
      [] tk.k = "number" -> [v |-> PyInt(tk.n), next |-> i + 1]
      [] tk.k = "["      -> IF toks[i + 1].k = "]"
                            THEN [v |-> PyList(<<>>), next |-> i + 2]
                            ELSE ParseElems(toks, i + 1, <<>>)
      [] tk.k = "{"      -> IF toks[i + 1].k = "}"
                            THEN [v |-> PyDict(<<>>), next |-> i + 2]
                            ELSE ParseItems(toks, i + 1, <<>>)

ParseElems(toks, i, acc) ==
    LET r == ParseValue(toks, i) IN
    IF toks[r.next].k = ","
    THEN ParseElems(toks, r.next + 1, Append(acc, r.v))
    ELSE [v |-> PyList(Append(acc, r.v)), next |-> r.next + 1]

ParseItems(toks, i, acc) ==
    LET r == ParseValue(toks, i + 2) IN
    IF toks[r.next].k = ","
    THEN ParseItems(toks, r.next + 1, Append(acc, <<toks[i].name, r.v>>))
    ELSE [v |-> PyDict(Append(acc, <<toks[i].name, r.v>>)), next |-> r.next + 1]

json_loads(toks) == ParseValue(toks, 1).v

---------------------------------------------------------------------------
(* datetime.date: isoformat and fromisoformat *)

Date(year, month, day) == [year |-> year, month |-> month, day |-> day]

\* The decimal digits of n >= 0, without padding.
RECURSIVE Digits(_)
Digits(n) ==
    IF n < 10 THEN <<DigitChars[n + 1]>>
    ELSE Digits(n \div 10) \o <<DigitChars[(n % 10) + 1]>>

\* "%0<width>d" % n
RECURSIVE ZeroPad(_, _)
ZeroPad(s, width) == IF Len(s) >= width THEN s ELSE ZeroPad(<<"0">> \o s, width)

\* date.isoformat(): YYYY-MM-DD
isoformat(d) ==
    ZeroPad(Digits(d.year), 4) \o <<"-">> \o ZeroPad(Digits(d.month), 2)
        \o <<"-">> \o ZeroPad(Digits(d.day), 2)

DigitValue(c) == (CHOOSE i \in DOMAIN DigitChars : DigitChars[i] = c) - 1

RECURSIVE ToInt(_)
ToInt(s) ==
    IF s = <<>> THEN 0
    ELSE 10 * ToInt(SubSeq(s, 1, Len(s) - 1)) + DigitValue(s[Len(s)])

\* date.fromisoformat(text) of a YYYY-MM-DD text
fromisoformat(text) ==
    Date(ToInt(SubSeq(text, 1, 4)), ToInt(SubSeq(text, 6, 7)),
         ToInt(SubSeq(text, 9, 10)))

---------------------------------------------------------------------------
(* RecipeInDb *)

RecipeInDb(date, data) == [date |-> date, data |-> data]

\* RecipeInDb.id: data["_id"]["$oid"]
id(recipe) == dict_item(dict_item(recipe.data, "_id"), "$oid").s

---------------------------------------------------------------------------
(* The tables.  A table is the sequence of its rows in rowid order; a      *)
(* column holds the Python value sqlite3 bound to it (None is NULL).       *)

EmptyDb == [recipes |-> <<>>, ingredients |-> <<>>, recipe_ingredients |-> <<>>]

Langs == <<"en", "de", "es", "fr", "pt">>

\* RecipeRepository._localized_values
_localized_values(values) ==
    LET vals == IF Truthy(values) THEN values ELSE PyDict(<<>>)
    IN  <<dict_get(vals, "en", None), dict_get(vals, "de", None),
          dict_get(vals, "es", None), dict_get(vals, "fr", None),
          dict_get(vals, "pt", None)>>

\* str(v) of a str or a non-negative int
str(v) == IF v.t = "int" THEN Digits(v.n) ELSE v.s

\* A key derivation that returns an empty key where the code raises.
_canonical_ingredient_key_no_raise(ingredient_details) ==
    IF Truthy(dict_get(ingredient_details, "typ", None))
    THEN [raised |-> "", key |-> str(dict_item(ingredient_details, "typ"))]
    ELSE LET localized == dict_get(ingredient_details, "localizedTitle", PyDict(<<>>))
             titled == {i \in DOMAIN Langs : Truthy(dict_get(localized, Langs[i], None))}
         IN  IF titled # {}
             THEN LET first == CHOOSE i \in titled : \A j \in titled : i <= j
                      title == dict_item(localized, Langs[first]).s
                  IN  [raised |-> "", key |-> join(<<"_">>, split(lower(title)))]
             ELSE [raised |-> "", key |-> <<>>]

\* RecipeRepository._canonical_ingredient_key: the key, or the ValueError.
_canonical_ingredient_key(ingredient_details) ==
    IF Truthy(dict_get(ingredient_details, "typ", None))
    THEN [raised |-> "", key |-> str(dict_item(ingredient_details, "typ"))]
    ELSE LET localized == dict_get(ingredient_details, "localizedTitle", PyDict(<<>>))
             titled == {i \in DOMAIN Langs : Truthy(dict_get(localized, Langs[i], None))}
         IN  IF titled # {}
             THEN LET first == CHOOSE i \in titled : \A j \in titled : i <= j
                      title == dict_item(localized, Langs[first]).s
                  IN  [raised |-> "", key |-> join(<<"_">>, split(lower(title)))]
             ELSE [raised |-> "ValueError", key |-> <<>>]

\* The ingredients row bound by _upsert_ingredient's INSERT.
IngredientRow(key, ingredient_details) ==
    LET localized_title == _localized_values(dict_get(ingredient_details, "localizedTitle", None))
        number_title == _localized_values(dict_get(ingredient_details, "numberTitle", None))
        uncountable_title ==
            _localized_values(dict_get(ingredient_details, "uncountableTitle", None))
    IN  [key |-> key,
         typ |-> dict_get(ingredient_details, "typ", None),
         category |-> dict_get(ingredient_details, "category", None),
         title_en |-> localized_title[1], title_de |-> localized_title[2],
         title_es |-> localized_title[3], title_fr |-> localized_title[4],
         title_pt |-> localized_title[5],
         number_title_en |-> number_title[1], number_title_de |-> number_title[2],
         number_title_es |-> number_title[3], number_title_fr |-> number_title[4],
         number_title_pt |-> number_title[5],
         uncountable_title_en |-> uncountable_title[1],
         uncountable_title_de |-> uncountable_title[2],
         uncountable_title_es |-> uncountable_title[3],
         uncountable_title_fr |-> uncountable_title[4],
         uncountable_title_pt |-> uncountable_title[5]]

\* The table with the row at index i replaced: an UPDATE keeps the rowid.
UpdateAt(table, i, row) ==
    SubSeq(table, 1, i - 1) \o <<row>> \o SubSeq(table, i + 1, Len(table))

\* An INSERT into an ingredients table that has no primary key.
InsertIngredient_without_key(table, excluded) == Append(table, excluded)

\* An upsert of ingredients with ON CONFLICT(key) DO NOTHING.
InsertIngredient_do_nothing(table, excluded) ==
    IF \E i \in DOMAIN table : table[i].key = excluded.key
    THEN table
    ELSE Append(table, excluded)

\* INSERT INTO ingredients ... ON CONFLICT(key) DO UPDATE SET ...
InsertIngredient(table, excluded) ==
    IF \E i \in DOMAIN table : table[i].key = excluded.key
    THEN LET i == CHOOSE j \in DOMAIN table : table[j].key = excluded.key
         IN  UpdateAt(table, i,
                [table[i] EXCEPT
                        !.typ = excluded.typ,
                        !.category = excluded.category,
                        !.title_en = excluded.title_en,
                        !.title_de = excluded.title_de,
                        !.title_es = excluded.title_es,
                        !.title_fr = excluded.title_fr,
                        !.title_pt = excluded.title_pt,
                        !.number_title_en = excluded.number_title_en,
                        !.number_title_de = excluded.number_title_de,
                        !.number_title_es = excluded.number_title_es,
                        !.number_title_fr = excluded.number_title_fr,
                        !.number_title_pt = excluded.number_title_pt,
                        !.uncountable_title_en = excluded.uncountable_title_en,
                        !.uncountable_title_de = excluded.uncountable_title_de,
                        !.uncountable_title_es = excluded.uncountable_title_es,
                        !.uncountable_title_fr = excluded.uncountable_title_fr,
                        !.uncountable_title_pt = excluded.uncountable_title_pt])
    ELSE Append(table, excluded)

\* RecipeRepository._upsert_ingredient: the connection's tables afterwards and
\* the key returned, or the ValueError raised before any statement ran.
_upsert_ingredient(conn, ingredient_details) ==
    LET derived == _canonical_ingredient_key(ingredient_details)
    IN  IF derived.raised # ""
        THEN [raised |-> derived.raised, conn |-> conn, key |-> <<>>]
        ELSE [raised |-> "",
              conn |-> [conn EXCEPT !.ingredients =
                          InsertIngredient(@, IngredientRow(derived.key, ingredient_details))],
              key |-> derived.key]

\* An upsert of recipes whose DO UPDATE SET leaves the title columns out.
InsertRecipe_without_titles(table, excluded) ==
    IF \E i \in DOMAIN table : table[i].id = excluded.id
    THEN LET i == CHOOSE j \in DOMAIN table : table[j].id = excluded.id
         IN  UpdateAt(table, i,
                [table[i] EXCEPT !.date = excluded.date, !.raw_json = excluded.raw_json])
    ELSE Append(table, excluded)

\* An INSERT into a recipes table that has no primary key.
InsertRecipe_without_key(table, excluded) == Append(table, excluded)

\* INSERT INTO recipes ... ON CONFLICT(id) DO UPDATE SET ...
InsertRecipe(table, excluded) ==
    IF \E i \in DOMAIN table : table[i].id = excluded.id
    THEN LET i == CHOOSE j \in DOMAIN table : table[j].id = excluded.id
         IN  UpdateAt(table, i,
                [table[i] EXCEPT
                        !.date = excluded.date,
                        !.title_en = excluded.title_en,
                        !.title_de = excluded.title_de,
                        !.title_es = excluded.title_es,
                        !.title_fr = excluded.title_fr,
                        !.title_pt = excluded.title_pt,
                        !.raw_json = excluded.raw_json])
    ELSE Append(table, excluded)

\* An _upsert_recipe that leaves the DELETE out.
DeleteLinks_nothing(table, recipe_id) == table

\* DELETE FROM recipe_ingredients WHERE recipe_id = ?
DeleteLinks(table, recipe_id) ==
    SelectSeq(table, LAMBDA row : row.recipe_id # recipe_id)

\* INSERT INTO recipe_ingredients ... ON CONFLICT(recipe_id, position) DO UPDATE SET ...
InsertLink(table, excluded) ==
    IF \E i \in DOMAIN table :
            table[i].recipe_id = excluded.recipe_id /\ table[i].position = excluded.position
    THEN LET i == CHOOSE j \in DOMAIN table : table[j].recipe_id = excluded.recipe_id
                                           /\ table[j].position = excluded.position
         IN  UpdateAt(table, i,
                [table[i] EXCEPT
                        !.ingredient_key = excluded.ingredient_key,
                        !.quantity = excluded.quantity,
                        !.measure = excluded.measure])
    ELSE Append(table, excluded)

\* The loop of _upsert_recipe over enumerate(ingredients), from `position` on:
\* it stops at the first ingredient whose key derivation raises.
RECURSIVE UpsertLinks(_, _, _, _)
UpsertLinks(conn, recipe_id, ingredients, position) ==
    IF position >= Len(ingredients)
    THEN [raised |-> "", conn |-> conn, position |-> position]
    ELSE LET ingredient == ingredients[position + 1]
             ingredient_details == dict_get(ingredient, "ingredient", PyDict(<<>>))
             upserted == _upsert_ingredient(conn, ingredient_details)
         IN  IF upserted.raised # ""
             THEN [raised |-> upserted.raised, conn |-> upserted.conn,
                   position |-> position]
             ELSE UpsertLinks(
                    [upserted.conn EXCEPT !.recipe_ingredients =
                        InsertLink(@, [recipe_id |-> recipe_id,
                                       ingredient_key |-> upserted.key,
                                       quantity |-> dict_get(ingredient, "quantity", None),
                                       measure |-> dict_get(ingredient, "measure", None),
                                       position |-> position])],
                    recipe_id, ingredients, position + 1)

\* The recipes row bound by _upsert_recipe's INSERT.
RecipeRow(recipe) ==
    LET localized_title == _localized_values(dict_get(recipe.data, "localizedTitle", None))
    IN  [id |-> id(recipe),
         date |-> isoformat(recipe.date),
         title_en |-> localized_title[1], title_de |-> localized_title[2],
         title_es |-> localized_title[3], title_fr |-> localized_title[4],
         title_pt |-> localized_title[5],
         raw_json |-> json_dumps(recipe.data)]

\* An _upsert_recipe that also deletes the ingredients no link refers to.
_upsert_recipe_pruning(conn, recipe) ==
    LET inserted == [conn EXCEPT !.recipes = InsertRecipe(@, RecipeRow(recipe))]
        deleted == [inserted EXCEPT !.recipe_ingredients = DeleteLinks(@, id(recipe))]
        upserted == UpsertLinks(deleted, id(recipe),
                                dict_get(recipe.data, "ingredients", PyList(<<>>)).elems, 0)
    IN  [upserted EXCEPT !.conn.ingredients =
            SelectSeq(@, LAMBDA row :
                \E l \in DOMAIN upserted.conn.recipe_ingredients :
                    upserted.conn.recipe_ingredients[l].ingredient_key = row.key)]

\* RecipeRepository._upsert_recipe on the tables the connection sees: the
\* tables after the last statement that ran, and the exception if one was
\* raised (with the list position of the ingredient that raised it).
_upsert_recipe(conn, recipe) ==
    LET inserted == [conn EXCEPT !.recipes = InsertRecipe(@, RecipeRow(recipe))]
        deleted == [inserted EXCEPT !.recipe_ingredients = DeleteLinks(@, id(recipe))]
    IN  UpsertLinks(deleted, id(recipe),
                    dict_get(recipe.data, "ingredients", PyList(<<>>)).elems, 0)

---------------------------------------------------------------------------
(* Reading *)

\* ORDER BY: the rows sorted by `precedes`, the set of pairs <<a, b>> of rows
\* with a ordered strictly before b; rows it leaves unordered stay in rowid
\* order.
RECURSIVE OrderBy(_, _)
OrderBy(rows, precedes) ==
    IF rows = <<>> THEN <<>>
    ELSE LET sorted == OrderBy(SubSeq(rows, 1, Len(rows) - 1), precedes)
             row == rows[Len(rows)]
             n == Cardinality({i \in DOMAIN sorted : <<row, sorted[i]>> \notin precedes})
         IN  SubSeq(sorted, 1, n) \o <<row>> \o SubSeq(sorted, n + 1, Len(sorted))

Pairs(rows) == {<<rows[i], rows[j]>> : i, j \in DOMAIN rows}

\* ORDER BY date DESC
RecipeOrder_date_only(a, b) == StrLess(b.date, a.date)

\* ORDER BY date DESC, id ASC
RecipeOrder(a, b) ==
    \/ StrLess(b.date, a.date)
    \/ a.date = b.date /\ StrLess(a.id, b.id)

\* RecipeRepository._rows_to_recipes
_rows_to_recipes(rows) ==
    [i \in DOMAIN rows |->
        RecipeInDb(fromisoformat(rows[i].date), json_loads(rows[i].raw_json))]

\* RecipeRepository.list
list(conn) ==
    _rows_to_recipes(
        OrderBy(conn.recipes, {p \in Pairs(conn.recipes) : RecipeOrder(p[1], p[2])}))

\* A get whose SELECT has no WHERE clause: the first row of the table.
get_without_where(conn, recipe_id) ==
    IF conn.recipes = <<>> THEN None ELSE _rows_to_recipes(<<conn.recipes[1]>>)[1]

\* RecipeRepository.get
get(conn, recipe_id) ==
    LET rows == SelectSeq(conn.recipes, LAMBDA row : row.id = recipe_id)
    IN  IF rows = <<>> THEN None ELSE _rows_to_recipes(<<rows[1]>>)[1]

\* A needs_to_be_synced whose SELECT has no WHERE clause.
needs_to_be_synced_without_where(conn, _date) == conn.recipes = <<>>

\* RecipeRepository.needs_to_be_synced
needs_to_be_synced(conn, _date) ==
    LET rows == SelectSeq(conn.recipes, LAMBDA row : row.date = isoformat(_date))
    IN  rows = <<>>

\* COALESCE(title_de, title_en, typ)
Coalesce(row) ==
    IF row.title_de # None THEN row.title_de
    ELSE IF row.title_en # None THEN row.title_en
    ELSE row.typ

\* ORDER BY COALESCE(title_de, title_en, typ): NULL first, then TEXT by bytes
IngredientOrder(a, b) ==
    \/ Coalesce(a) = None /\ Coalesce(b) # None
    \/ Coalesce(a) # None /\ Coalesce(b) # None /\ StrLess(Coalesce(a).s, Coalesce(b).s)

LocalizedString(en, de, es, fr, pt) ==
    [en |-> en, de |-> de, es |-> es, fr |-> fr, pt |-> pt]

\* any(localized.model_dump().values())
AnyValue(ls) ==
    Truthy(ls.en) \/ Truthy(ls.de) \/ Truthy(ls.es) \/ Truthy(ls.fr) \/ Truthy(ls.pt)

\* The IngredientRecord list_ingredients builds from one row.
IngredientRecord(row) ==
    LET localized_title == LocalizedString(row.title_en, row.title_de, row.title_es,
                                           row.title_fr, row.title_pt)
        number_title == LocalizedString(row.number_title_en, row.number_title_de,
                                        row.number_title_es, row.number_title_fr,
                                        row.number_title_pt)
        uncountable_title ==
            LocalizedString(row.uncountable_title_en, row.uncountable_title_de,
                            row.uncountable_title_es, row.uncountable_title_fr,
                            row.uncountable_title_pt)
    IN  [key |-> row.key,
         typ |-> row.typ,
         category |-> row.category,
         localized_title |-> localized_title,
         number_title |-> IF AnyValue(number_title) THEN number_title ELSE None,
         uncountable_title |->
            IF AnyValue(uncountable_title) THEN uncountable_title ELSE None]

\* RecipeRepository.list_ingredients
list_ingredients(conn) ==
    LET rows == OrderBy(conn.ingredients,
                        {p \in Pairs(conn.ingredients) : IngredientOrder(p[1], p[2])})
    IN  [i \in DOMAIN rows |-> IngredientRecord(rows[i])]

---------------------------------------------------------------------------
(* Writing *)

\* A create_backup that copies nothing.
create_backup_nothing(database) == <<>>

\* RecipeRepository.create_backup: the database file exists once the
\* repository is constructed, so the copy is always made.
create_backup(database) == <<database>>

\* A connection in autocommit mode: what ran before the exception stays.
_connect_autocommit(before, body) == body.conn

\* RecipeRepository._connect: leaving the sqlite3 connection context commits
\* what the body wrote, or rolls it back when the body raised.
_connect(before, body) == IF body.raised = "" THEN body.conn ELSE before

\* A loop of add_list that returns after its first recipe.
UpsertRecipes_first_only(conn, recipes, index) ==
    IF index >= Len(recipes)
    THEN [raised |-> "", conn |-> conn, index |-> index, position |-> 0]
    ELSE LET upserted == _upsert_recipe(conn, recipes[index + 1])
         IN  [raised |-> upserted.raised, conn |-> upserted.conn,
              index |-> IF upserted.raised # "" THEN index ELSE Len(recipes),
              position |-> IF upserted.raised # "" THEN upserted.position ELSE 0]

\* The loop of add_list, from the recipe at `index` on: it stops at the first
\* recipe whose _upsert_recipe raises.
RECURSIVE UpsertRecipes(_, _, _)
UpsertRecipes(conn, recipes, index) ==
    IF index >= Len(recipes)
    THEN [raised |-> "", conn |-> conn, index |-> index, position |-> 0]
    ELSE LET upserted == _upsert_recipe(conn, recipes[index + 1])
         IN  IF upserted.raised # ""
             THEN [raised |-> upserted.raised, conn |-> upserted.conn,
                   index |-> index, position |-> upserted.position]
             ELSE UpsertRecipes(upserted.conn, recipes, index + 1)

\* What a call leaves in `last`.
Outcome(op, recipes, body, index) ==
    [op |-> op, recipes |-> recipes, raised |-> body.raised,
     index |-> index, position |-> body.position]

Ids(recipes) == {id(recipes[i]) : i \in DOMAIN recipes}

\* RecipeRepository.add: the backup, then the body of the with block, run once
\* on the committed tables, then the commit or the rollback.
add(recipe) ==
    \E body \in {_upsert_recipe(db, recipe)} :
        /\ backup' = create_backup(db)
        /\ db' = _connect(db, body)
        /\ last' = Outcome("add", <<recipe>>, body, 0)
        /\ added' = IF body.raised = "" THEN added \cup {id(recipe)} ELSE added
        /\ UNCHANGED txn

\* RecipeRepository.add_list
add_list(recipes) ==
    \E body \in {UpsertRecipes(db, recipes, 0)} :
        /\ backup' = create_backup(db)
        /\ db' = _connect(db, body)
        /\ last' = Outcome("add_list", recipes, body, body.index)
        /\ added' = IF body.raised = "" THEN added \cup Ids(recipes) ELSE added
        /\ UNCHANGED txn

\* A database file without tables.
NoTables == [name \in {} |-> <<>>]

\* DROP TABLE IF EXISTS name; CREATE TABLE name (...)
CreateTable_dropping(database, name) ==
    [n \in DOMAIN database \cup {name} |-> IF n = name THEN <<>> ELSE database[n]]

\* CREATE TABLE IF NOT EXISTS name (...)
CreateTableIfNotExists(database, name) ==
    IF name \in DOMAIN database
    THEN database
    ELSE [n \in DOMAIN database \cup {name} |-> IF n = name THEN <<>> ELSE database[n]]

\* RecipeRepository._ensure_schema: the script of three CREATE TABLE IF NOT
\* EXISTS statements, run in a connection context.
_ensure_schema(database) ==
    _connect(database,
        [raised |-> "",
         conn |-> CreateTableIfNotExists(
                    CreateTableIfNotExists(
                        CreateTableIfNotExists(database, "recipes"),
                        "ingredients"),
                    "recipe_ingredients")])

\* RecipeRepository.__init__ on the base directory of the store: mkdir with
\* exist_ok touches no file, then _ensure_schema.
__init__ ==
    /\ db' = _ensure_schema(db)
    /\ last' = [op |-> "__init__", recipes |-> <<>>, raised |-> "", index |-> 0,
                position |-> 0]
    /\ UNCHANGED <<backup, added, txn>>

\* The backup file once shutil.copyfile has been cut short.
TornCopy == [torn |-> TRUE]

\* The backup file after a shutil.copyfile that raised: it failed to open the
\* destination, which is then untouched, or it failed while writing to it.
copyfile_raised(previous) == {previous, <<TornCopy>>}

\* A call that goes on to its with block although create_backup raised.
after_create_backup_ignoring(before, raised, body) == _connect(before, body)

\* The tables a call leaves, given what create_backup raised: create_backup
\* is the first statement of add and of add_list, so its exception leaves
\* the method before the connection is opened.
after_create_backup(before, raised, body) ==
    IF raised # "" THEN before ELSE _connect(before, body)

\* RecipeRepository.add when the copy of create_backup raises OSError.
add_copyfile_raises(recipe) ==
    \E body \in {_upsert_recipe(db, recipe)} :
        /\ backup' \in copyfile_raised(backup)
        /\ db' = after_create_backup(db, "OSError", body)
        /\ last' = [op |-> "add", recipes |-> <<recipe>>, raised |-> "OSError",
                    index |-> 0, position |-> 0]
        /\ UNCHANGED <<added, txn>>

\* RecipeRepository.add_list when the copy of create_backup raises OSError.
add_list_copyfile_raises(recipes) ==
    \E body \in {UpsertRecipes(db, recipes, 0)} :
        /\ backup' \in copyfile_raised(backup)
        /\ db' = after_create_backup(db, "OSError", body)
        /\ last' = [op |-> "add_list", recipes |-> recipes, raised |-> "OSError",
                    index |-> 0, position |-> 0]
        /\ UNCHANGED <<added, txn>>

---------------------------------------------------------------------------
(* Statement by statement: a call inside its with block, and the read       *)
(* operations of other callers, each on a connection of its own             *)

\* What the with block of add / add_list starts with: the connection sees
\* the committed tables, the first statement is the INSERT of the first
\* recipe.
Entered(op, recipes) ==
    [op |-> op, recipes |-> recipes, conn |-> db, index |-> 0, position |-> 0,
     stage |-> IF recipes = <<>> THEN "exit" ELSE "recipe",
     key |-> <<>>, raised |-> ""]

\* RecipeRepository.add up to the first statement of its with block.
begin_add(recipe) ==
    /\ txn = <<>>
    /\ backup' = create_backup(db)
    /\ txn' = <<Entered("add", <<recipe>>)>>
    /\ UNCHANGED <<db, last, added>>

\* RecipeRepository.add_list up to the first statement of its with block.
begin_add_list(recipes) ==
    /\ txn = <<>>
    /\ backup' = create_backup(db)
    /\ txn' = <<Entered("add_list", recipes)>>
    /\ UNCHANGED <<db, last, added>>

\* _upsert_recipe: INSERT INTO recipes ... ON CONFLICT(id) DO UPDATE
insert_recipe ==
    /\ txn # <<>> /\ txn[1].stage = "recipe"
    /\ txn' = <<[txn[1] EXCEPT
                    !.conn = [@ EXCEPT !.recipes =
                                InsertRecipe(@, RecipeRow(txn[1].recipes[txn[1].index + 1]))],
                    !.stage = "delete"]>>
    /\ UNCHANGED <<db, backup, last, added>>

\* _upsert_recipe: DELETE FROM recipe_ingredients WHERE recipe_id = ?
delete_links ==
    /\ txn # <<>> /\ txn[1].stage = "delete"
    /\ txn' = <<[txn[1] EXCEPT
                    !.conn = [@ EXCEPT !.recipe_ingredients =
                                DeleteLinks(@, id(txn[1].recipes[txn[1].index + 1]))],
                    !.position = 0,
                    !.stage = "ingredient"]>>
    /\ UNCHANGED <<db, backup, last, added>>

\* The loop of _upsert_recipe: _upsert_ingredient of the entry at `position`,
\* which raises or upserts the ingredient row; after the last entry the loop
\* of add_list goes to the next recipe, or the with block is left.
upsert_ingredient ==
    /\ txn # <<>> /\ txn[1].stage = "ingredient"
    /\ LET t == txn[1]
           recipe == t.recipes[t.index + 1]
           ingredients == dict_get(recipe.data, "ingredients", PyList(<<>>)).elems
       IN  IF t.position >= Len(ingredients)
           THEN txn' = <<[t EXCEPT !.index = t.index + 1,
                                   !.position = 0,
                                   !.stage = IF t.index + 1 >= Len(t.recipes)
                                             THEN "exit" ELSE "recipe"]>>
           ELSE \E upserted \in {_upsert_ingredient(t.conn,
                                    dict_get(ingredients[t.position + 1], "ingredient",
                                             PyDict(<<>>)))} :
                    txn' = <<[t EXCEPT !.conn = upserted.conn,
                                       !.key = upserted.key,
                                       !.raised = upserted.raised,
                                       !.stage = IF upserted.raised # ""
                                                 THEN "exit" ELSE "link"]>>
    /\ UNCHANGED <<db, backup, last, added>>

\* _upsert_recipe: INSERT INTO recipe_ingredients ... ON CONFLICT DO UPDATE
insert_link ==
    /\ txn # <<>> /\ txn[1].stage = "link"
    /\ LET t == txn[1]
           recipe == t.recipes[t.index + 1]
           ingredient ==
               dict_get(recipe.data, "ingredients", PyList(<<>>)).elems[t.position + 1]
       IN  txn' = <<[t EXCEPT
                        !.conn = [@ EXCEPT !.recipe_ingredients =
                                    InsertLink(@, [recipe_id |-> id(recipe),
                                                   ingredient_key |-> t.key,
                                                   quantity |-> dict_get(ingredient, "quantity", None),
                                                   measure |-> dict_get(ingredient, "measure", None),
                                                   position |-> t.position])],
                        !.position = t.position + 1,
                        !.stage = "ingredient"]>>
    /\ UNCHANGED <<db, backup, last, added>>

\* Leaving the with block of _connect: commit, or rollback on the exception.
exit_connect ==
    /\ txn # <<>> /\ txn[1].stage = "exit"
    /\ db' = _connect(db, [raised |-> txn[1].raised, conn |-> txn[1].conn])
    /\ last' = [op |-> txn[1].op, recipes |-> txn[1].recipes,
                raised |-> txn[1].raised,
                index |-> IF txn[1].raised = "" THEN 0 ELSE txn[1].index,
                position |-> IF txn[1].raised = "" THEN 0 ELSE txn[1].position]
    /\ added' = IF txn[1].raised = "" THEN added \cup Ids(txn[1].recipes) ELSE added
    /\ txn' = <<>>
    /\ UNCHANGED backup

\* A connection that reads what another connection has not committed.
connection_of_reader_uncommitted(committed, transaction) ==
    IF transaction = <<>> THEN committed ELSE transaction[1].conn

\* The tables the connection of a read operation sees: every call opens its
\* own sqlite3 connection, which reads the committed tables whatever
\* transaction another connection has open.
connection_of_reader(committed, transaction) == committed

\* list(), get(recipe_id), list_ingredients() and needs_to_be_synced(_date)
\* called by another caller at any time.
read_list ==
    /\ last' = [op |-> "list", arg |-> <<>>,
                result |-> list(connection_of_reader(db, txn))]
    /\ UNCHANGED <<db, backup, added, txn>>

read_get(recipe_id) ==
    /\ last' = [op |-> "get", arg |-> recipe_id,
                result |-> get(connection_of_reader(db, txn), recipe_id)]
    /\ UNCHANGED <<db, backup, added, txn>>

read_list_ingredients ==
    /\ last' = [op |-> "list_ingredients", arg |-> <<>>,
                result |-> list_ingredients(connection_of_reader(db, txn))]
    /\ UNCHANGED <<db, backup, added, txn>>

read_needs_to_be_synced(_date) ==
    /\ last' = [op |-> "needs_to_be_synced", arg |-> _date,
                result |-> needs_to_be_synced(connection_of_reader(db, txn), _date)]
    /\ UNCHANGED <<db, backup, added, txn>>

---------------------------------------------------------------------------
(* The recipes the calls are made with *)

\* The longest list add_list is called with.
MaxBatch == 2

Text_tomato == <<"t","o","m","a","t","o">>
Text_Tomato == <<"T","o","m","a","t","o">>
Text_Tomate == <<"T","o","m","a","t","e">>
Text_Tomaten == <<"T","o","m","a","t","e","n">>
Text_vegetable == <<"v","e","g","e","t","a","b","l","e">>
Text_RedOnion == <<"R","e","d"," "," ","O","n","i","o","n">>
Text_RedOnions == <<"R","e","d"," ","O","n","i","o","n","s">>
Text_redonion == <<"r","e","d"," ","o","n","i","o","n">>
Text_Zwiebel == <<"Z","w","i","e","b","e","l">>
Text_salt == <<"s","a","l","t">>
Text_spice == <<"s","p","i","c","e">>
Text_piece == <<"p","i","e","c","e">>
Text_g == <<"g">>
Text_Soup == <<"S","o","u","p">>
Text_Suppe == <<"S","u","p","p","e">>
Text_Salad == <<"S","a","l","a","d">>
Text_Stew == <<"S","t","e","w">>
Text_test == <<"t","e","s","t">>

\* The ingredient of tests/repositories_test.py.
Tomato ==
    PyDict(<< <<"typ", PyStr(Text_tomato)>>,
              <<"localizedTitle", PyDict(<< <<"de", PyStr(Text_Tomate)>>,
                                            <<"en", PyStr(Text_Tomato)>> >>)>>,
              <<"numberTitle", PyDict(<< <<"de", PyStr(Text_Tomaten)>> >>)>>,
              <<"category", PyStr(Text_vegetable)>> >>)

\* The same typ with fewer fields and an empty plural form.
TomatoEn ==
    PyDict(<< <<"typ", PyStr(Text_tomato)>>,
              <<"localizedTitle", PyDict(<< <<"en", PyStr(Text_Tomato)>> >>)>>,
              <<"numberTitle", PyDict(<< <<"en", PyStr(<<>>)>> >>)>> >>)

\* No typ: the key comes from the English title "Red  Onion".
RedOnion ==
    PyDict(<< <<"localizedTitle", PyDict(<< <<"en", PyStr(Text_RedOnion)>> >>)>>,
              <<"numberTitle", PyDict(<< <<"en", PyStr(Text_RedOnions)>> >>)>> >>)

\* No typ: German title first in the dict, English title "red onion".
Zwiebel ==
    PyDict(<< <<"localizedTitle", PyDict(<< <<"de", PyStr(Text_Zwiebel)>>,
                                            <<"en", PyStr(Text_redonion)>> >>)>> >>)

Salt == PyDict(<< <<"typ", PyStr(Text_salt)>> >>)

\* Neither a typ nor a localized title.
NoKey == PyDict(<< <<"category", PyStr(Text_spice)>> >>)

Entry(quantity, measure, ingredient_details) ==
    PyDict(<< <<"quantity", quantity>>, <<"measure", measure>>,
              <<"ingredient", ingredient_details>> >>)

Oid(recipe_id) == <<"_id", PyDict(<< <<"$oid", PyStr(recipe_id)>> >>)>>

Soup(recipe_id) ==
    PyDict(<< Oid(recipe_id),
              <<"localizedTitle", PyDict(<< <<"en", PyStr(Text_Soup)>>,
                                            <<"de", PyStr(Text_Suppe)>> >>)>>,
              <<"ingredients", PyList(<< Entry(PyInt(1), PyStr(Text_piece), Tomato),
                                         Entry(PyInt(2), None, RedOnion) >>)>> >>)

Salad(recipe_id) ==
    PyDict(<< Oid(recipe_id),
              <<"localizedTitle", PyDict(<< <<"en", PyStr(Text_Salad)>> >>)>>,
              <<"ingredients", PyList(<< Entry(PyInt(3), PyStr(Text_g), Zwiebel),
                                         Entry(PyInt(2), PyStr(Text_piece), TomatoEn) >>)>> >>)

\* Its second ingredient has no key.
Stew(recipe_id) ==
    PyDict(<< Oid(recipe_id),
              <<"localizedTitle", PyDict(<< <<"en", PyStr(Text_Stew)>> >>)>>,
              <<"ingredients", PyList(<< Entry(PyInt(1), None, Salt),
                                         Entry(PyInt(1), None, NoKey) >>)>> >>)

\* The recipe of tests/repositories_test.py: no ingredients, no localizedTitle.
Plain(recipe_id) ==
    PyDict(<< Oid(recipe_id), <<"title", PyStr(Text_test)>> >>)

Id2 == <<"2">>
Id10 == <<"1", "0">>
RecipeIds == {Id2, Id10}

Feb3 == Date(2024, 2, 3)
Nov1 == Date(2024, 11, 1)
Dates == {Feb3, Nov1}

Recipes ==
    { RecipeInDb(Feb3, Soup(Id2)), RecipeInDb(Nov1, Salad(Id2)),
      RecipeInDb(Feb3, Stew(Id2)), RecipeInDb(Nov1, Plain(Id2)),
      RecipeInDb(Nov1, Soup(Id10)), RecipeInDb(Feb3, Salad(Id10)),
      RecipeInDb(Nov1, Stew(Id10)), RecipeInDb(Feb3, Plain(Id10)) }

\* The recipes add_list is called with: two versions of recipe 2, and of
\* recipe 10 one that shares their ingredient keys and one that fails.
BatchRecipes ==
    { RecipeInDb(Feb3, Soup(Id2)), RecipeInDb(Nov1, Salad(Id2)),
      RecipeInDb(Feb3, Salad(Id10)), RecipeInDb(Nov1, Stew(Id10)) }

Batches == UNION {[1..n -> BatchRecipes] : n \in 0..MaxBatch}

\* The recipes of the calls that are followed through file failures and
\* statement by statement: two versions of recipe 2 and a recipe 10 that
\* fails.
FewRecipes ==
    { RecipeInDb(Feb3, Soup(Id2)), RecipeInDb(Nov1, Salad(Id2)),
      RecipeInDb(Nov1, Stew(Id10)) }

FewBatches == UNION {[1..n -> FewRecipes] : n \in 0..MaxBatch}

---------------------------------------------------------------------------
(* The store *)

\* RecipeRepository.__init__ on an empty base directory: _ensure_schema
\* creates the database file with three empty tables; no backup exists.
Init ==
    /\ db = EmptyDb
    /\ backup = <<>>
    /\ last = [op |-> "init", recipes |-> <<>>, raised |-> "", index |-> 0,
               position |-> 0]
    /\ added = {}
    /\ txn = <<>>

Next ==
    \/ \E recipe \in Recipes : add(recipe)
    \/ \E recipes \in Batches : add_list(recipes)

Spec == Init /\ [][Next]_vars

\* The store with its files: the repository is constructed again at any
\* time, and the copy of the backup may fail.
NextFiles ==
    \/ __init__
    \/ \E recipe \in FewRecipes : add(recipe)
    \/ \E recipes \in FewBatches : add_list(recipes)
    \/ \E recipe \in FewRecipes : add_copyfile_raises(recipe)
    \/ \E recipes \in FewBatches : add_list_copyfile_raises(recipes)

SpecFiles == Init /\ [][NextFiles]_vars

\* The store with a writer that runs statement by statement and readers
\* that call in between.
NextSteps ==
    \/ \E recipe \in FewRecipes : begin_add(recipe)
    \/ \E recipes \in FewBatches : begin_add_list(recipes)
    \/ insert_recipe
    \/ delete_links
    \/ upsert_ingredient
    \/ insert_link
    \/ exit_connect
    \/ read_list
    \/ \E recipe_id \in RecipeIds : read_get(recipe_id)
    \/ read_list_ingredients
    \/ \E _date \in Dates : read_needs_to_be_synced(_date)

SpecSteps == Init /\ [][NextSteps]_vars

---------------------------------------------------------------------------
(* Key derivation on its own: _canonical_ingredient_key applied to           *)
(* ingredient details that vary in every field                               *)

Text_Salt_padded == <<" ","S","a","l","t"," ">>
Text_blank == <<" ">>

\* A field the dict does not have.
Absent == [t |-> "absent"]

\* The dict with the given items, without the absent ones.
DictOf(items) == PyDict(SelectSeq(items, LAMBDA item : item[2] # Absent))

TypValues == {Absent, PyStr(<<>>), PyStr(Text_salt)}

TitleValues_en ==
    {Absent, PyStr(<<>>), PyStr(Text_blank), PyStr(Text_RedOnion), PyStr(Text_Salt_padded)}

LocalizedTitleValues ==
    {Absent} \cup
    {DictOf(<< <<"pt", pt>>, <<"de", de>>, <<"en", en>> >>) :
        pt \in {Absent, PyStr(Text_Tomate)},
        de \in {Absent, PyStr(Text_Zwiebel)},
        en \in TitleValues_en}

IngredientDetails ==
    {DictOf(<< <<"typ", typ>>, <<"localizedTitle", localizedTitle>>,
               <<"numberTitle", numberTitle>>, <<"category", category>> >>) :
        typ \in TypValues,
        localizedTitle \in LocalizedTitleValues,
        numberTitle \in {Absent, PyDict(<< <<"en", PyStr(Text_RedOnions)>> >>)},
        category \in {Absent, PyStr(Text_spice)}}

\* One call of _canonical_ingredient_key.
call_canonical_ingredient_key(ingredient_details) ==
    \E derived \in {_canonical_ingredient_key(ingredient_details)} :
        /\ last' = [op |-> "_canonical_ingredient_key",
                    ingredient_details |-> ingredient_details,
                    raised |-> derived.raised, key |-> derived.key]
        /\ UNCHANGED <<db, backup, added, txn>>

NextKey == \E ingredient_details \in IngredientDetails :
               call_canonical_ingredient_key(ingredient_details)

SpecKey == Init /\ [][NextKey]_vars

---------------------------------------------------------------------------
(* What the claims speak of *)

\* The recipe of the most recent add call.
LastRecipe == last.recipes[1]

\* An ingredient entry that lacks both a typ and every localized title.
Malformed(ingredient) ==
    LET ingredient_details == dict_get(ingredient, "ingredient", PyDict(<<>>))
        localized == dict_get(ingredient_details, "localizedTitle", PyDict(<<>>))
    IN  /\ ~Truthy(dict_get(ingredient_details, "typ", None))
        /\ \A i \in DOMAIN Langs : ~Truthy(dict_get(localized, Langs[i], None))

Ingredients(recipe) == dict_get(recipe.data, "ingredients", PyList(<<>>)).elems

HasMalformed(recipe) ==
    \E i \in DOMAIN Ingredients(recipe) : Malformed(Ingredients(recipe)[i])

WellFormed(recipes) == \A i \in DOMAIN recipes : ~HasMalformed(recipes[i])

RecipeRowsOf(conn, recipe_id) == SelectSeq(conn.recipes, LAMBDA row : row.id = recipe_id)

LinksOf(conn, recipe_id) ==
    SelectSeq(conn.recipe_ingredients, LAMBDA row : row.recipe_id = recipe_id)

Rows(table) == {table[i] : i \in DOMAIN table}

\* d1 is an earlier calendar day than d2.
DateLess(d1, d2) ==
    \/ d1.year < d2.year
    \/ d1.year = d2.year /\ d1.month < d2.month
    \/ d1.year = d2.year /\ d1.month = d2.month /\ d1.day < d2.day

\* The tables after add(recipe), and after add of each recipe in order.
AfterAdd(database, recipe) == _connect(database, _upsert_recipe(database, recipe))

RECURSIVE AfterAdds(_, _)
AfterAdds(database, recipes) ==
    IF recipes = <<>> THEN database
    ELSE AfterAdds(AfterAdd(database, Head(recipes)), Tail(recipes))

---------------------------------------------------------------------------
(* C1  Round trip: in the state a successful add(r) leaves, get(r.id)      *)
(* returns a record with r's date and r's payload.                         *)
C1_RoundTrip ==
    (last.op = "add" /\ last.raised = "") =>
        /\ get(db, id(LastRecipe)) # None
        /\ get(db, id(LastRecipe)).date = LastRecipe.date
        /\ get(db, id(LastRecipe)).data = LastRecipe.data

\* A payload with ingredients was added while another recipe was stored.
C1_Witness ==
    /\ last.op = "add" /\ last.raised = ""
    /\ Len(db.recipes) = 2
    /\ Ingredients(LastRecipe) # <<>>
    /\ get(db, id(LastRecipe)) = LastRecipe

(* C2  add is atomic: a step in which add fails leaves the three tables     *)
(* exactly as they were, so neither the recipe row, nor the deleted links,  *)
(* nor the ingredient upserts made before the failing position are kept.    *)
C2_AddAtomic ==
    [][(last'.op = "add" /\ last'.raised # "") => db' = db]_vars

\* add failed at list position 1, after the upsert of the ingredient at
\* position 0, on a recipe whose previous version is stored with its links;
\* the ingredient of position 0 is not in the table.
C2_Witness ==
    /\ last.op = "add" /\ last.raised # "" /\ last.position > 0
    /\ get(db, id(LastRecipe)) # None
    /\ get(db, id(LastRecipe)) # LastRecipe
    /\ LinksOf(db, id(LastRecipe)) # <<>>
    /\ \A i \in DOMAIN db.ingredients : db.ingredients[i].key # Text_salt

(* C3  A malformed ingredient rejects the whole write: add of a recipe that *)
(* is not stored and has an entry without typ and without any localized     *)
(* title raises the ValueError, and afterwards there is no recipes row and  *)
(* no recipe_ingredients row of that id, and no ingredient row with an      *)
(* empty key.                                                               *)
C3_MalformedRejected ==
    [][(/\ last'.op = "add"
        /\ HasMalformed(last'.recipes[1])
        /\ get(db, id(last'.recipes[1])) = None)
       => /\ last'.raised = "ValueError"
          /\ get(db', id(last'.recipes[1])) = None
          /\ LinksOf(db', id(last'.recipes[1])) = <<>>
          /\ \A i \in DOMAIN db'.ingredients : db'.ingredients[i].key # <<>>]_vars

\* The rejected recipe is absent while another recipe is stored.
C3_Witness ==
    /\ last.op = "add" /\ last.raised = "ValueError"
    /\ HasMalformed(LastRecipe)
    /\ get(db, id(LastRecipe)) = None
    /\ db.recipes # <<>>

(* C4  Replace semantics: add of a well-formed recipe whose id is stored    *)
(* with other content succeeds, and afterwards the one row of that id has   *)
(* the new date, the new payload and the localized titles of the new        *)
(* payload, NULL for a language the new payload lacks.                      *)
C4_Replace ==
    [][(/\ last'.op = "add"
        /\ ~HasMalformed(last'.recipes[1])
        /\ get(db, id(last'.recipes[1])) \notin {None, last'.recipes[1]})
       => LET recipe == last'.recipes[1]
              rows == RecipeRowsOf(db', id(recipe))
              titles == dict_get(recipe.data, "localizedTitle", PyDict(<<>>))
          IN  /\ last'.raised = ""
              /\ get(db', id(recipe)) = recipe
              /\ Len(rows) = 1
              /\ rows[1].title_en = dict_get(titles, "en", None)
              /\ rows[1].title_de = dict_get(titles, "de", None)
              /\ rows[1].title_es = dict_get(titles, "es", None)
              /\ rows[1].title_fr = dict_get(titles, "fr", None)
              /\ rows[1].title_pt = dict_get(titles, "pt", None)]_vars

\* The stored version had a German title; the version that replaced it has
\* none, and the column is NULL.
C4_Witness ==
    /\ last.op = "add" /\ last.raised = ""
    /\ backup # <<>>
    /\ RecipeRowsOf(backup[1], id(LastRecipe)) # <<>>
    /\ RecipeRowsOf(backup[1], id(LastRecipe))[1].title_de # None
    /\ RecipeRowsOf(db, id(LastRecipe))[1].title_de = None
    /\ get(db, id(LastRecipe)) = LastRecipe

(* C5  Ingredient deduplication: the ingredients table holds at most one    *)
(* row per canonical key, and every ingredient of every stored recipe is    *)
(* listed by list_ingredients exactly once, under its canonical key.        *)
C5_OneRowPerKey ==
    LET listed == list_ingredients(db)
    IN  /\ \A i, j \in DOMAIN listed : listed[i].key = listed[j].key => i = j
        /\ \A r \in DOMAIN list(db) : \A p \in DOMAIN Ingredients(list(db)[r]) :
              LET ingredient_details ==
                      dict_get(Ingredients(list(db)[r])[p], "ingredient", PyDict(<<>>))
                  key == _canonical_ingredient_key(ingredient_details).key
              IN  Cardinality({i \in DOMAIN listed : listed[i].key = key}) = 1

\* Two stored recipes link the same two keys, four links on two rows.
C5_Witness ==
    /\ Len(db.recipes) = 2
    /\ Len(db.recipe_ingredients) = 4
    /\ Len(list_ingredients(db)) = 2

\* A date no recipe of the model has.
Jan11 == Date(2024, 1, 11)

(* C6  needs_to_be_synced(d) is true exactly when list() has no recipe      *)
(* dated d; it is false for the date of a recipe add has just stored, and   *)
(* true again for the old date of a recipe that add has just moved to       *)
(* another date, when no other recipe has the old date.                     *)
C6_NeedsSync ==
    /\ \A d \in Dates \cup {Jan11} :
          needs_to_be_synced(db, d) <=>
              \A i \in DOMAIN list(db) : list(db)[i].date # d
    /\ (last.op = "add" /\ last.raised = "") =>
          /\ ~needs_to_be_synced(db, LastRecipe.date)
          /\ \A d \in Dates :
                (/\ d # LastRecipe.date
                 /\ \A i \in DOMAIN list(backup[1]) :
                       list(backup[1])[i].date = d =>
                           id(list(backup[1])[i]) = id(LastRecipe))
                => needs_to_be_synced(db, d)

\* The only recipe of a date was re-added under another date while another
\* recipe is stored: its old date needs to be synced again.
C6_Witness ==
    /\ last.op = "add" /\ last.raised = ""
    /\ Len(db.recipes) = 2
    /\ get(backup[1], id(LastRecipe)) # None
    /\ get(backup[1], id(LastRecipe)).date # LastRecipe.date
    /\ ~needs_to_be_synced(backup[1], get(backup[1], id(LastRecipe)).date)
    /\ needs_to_be_synced(db, get(backup[1], id(LastRecipe)).date)

(* C7  list() returns exactly one record per recipe id that a successful    *)
(* call has added, and the empty sequence while none was added.             *)
C7_ListOnePerId ==
    /\ Len(list(db)) = Cardinality(added)
    /\ {id(list(db)[i]) : i \in DOMAIN list(db)} = added
    /\ added = {} => list(db) = <<>>

\* add_list stored two versions of one id next to a stored recipe.
C7_Witness ==
    /\ last.op = "add_list" /\ last.raised = ""
    /\ Len(last.recipes) = 2
    /\ id(last.recipes[1]) = id(last.recipes[2])
    /\ last.recipes[1] # last.recipes[2]
    /\ Len(list(db)) = 2

(* C8  add_list is equivalent to sequential add: add leaves the tables      *)
(* AfterAdd gives, and add_list of well-formed recipes leaves the tables    *)
(* that add of each of them in order leaves.                                *)
C8_AddListIsSequentialAdd ==
    [][/\ last'.op = "add" => db' = AfterAdd(db, last'.recipes[1])
       /\ (last'.op = "add_list" /\ WellFormed(last'.recipes))
              => db' = AfterAdds(db, last'.recipes)]_vars

\* A list with a repeated id whose two versions share ingredient keys,
\* added to a store that holds the other recipe.
C8_Witness ==
    /\ last.op = "add_list" /\ last.raised = ""
    /\ Len(last.recipes) = 2
    /\ id(last.recipes[1]) = id(last.recipes[2])
    /\ Ingredients(last.recipes[1]) # Ingredients(last.recipes[2])
    /\ backup # <<>> /\ backup[1].recipes # <<>>
    /\ db # backup[1]

(* C9  When add_list fails, every row of the three tables that was stored   *)
(* before the call is still stored, unchanged.                              *)
C9_AddListLosesNothing ==
    [][(last'.op = "add_list" /\ last'.raised # "")
       => /\ Rows(db.recipes) \subseteq Rows(db'.recipes)
          /\ Rows(db.ingredients) \subseteq Rows(db'.ingredients)
          /\ Rows(db.recipe_ingredients) \subseteq Rows(db'.recipe_ingredients)]_vars

\* add_list failed at its second element, after a first element that would
\* have replaced a stored recipe; the stored version is still there.
C9_Witness ==
    /\ last.op = "add_list" /\ last.raised # "" /\ last.index = 1
    /\ get(db, id(last.recipes[1])) # None
    /\ get(db, id(last.recipes[1])) # last.recipes[1]
    /\ db.ingredients # <<>> /\ db.recipe_ingredients # <<>>

(* C10  list() returns every stored recipe, later dates first and, within   *)
(* one date, ids in ascending text order.                                   *)
C10_ListOrder ==
    LET listed == list(db)
    IN  /\ Len(listed) = Len(db.recipes)
        /\ {id(listed[i]) : i \in DOMAIN listed} = {db.recipes[i].id : i \in DOMAIN db.recipes}
        /\ \A i, j \in DOMAIN listed :
              i < j => \/ DateLess(listed[j].date, listed[i].date)
                       \/ /\ listed[i].date = listed[j].date
                          /\ StrLess(id(listed[i]), id(listed[j]))

\* Two recipes of one date whose rowid order is the reverse of their id
\* order.
C10_Witness ==
    /\ Len(db.recipes) = 2
    /\ db.recipes[1].date = db.recipes[2].date
    /\ StrLess(db.recipes[2].id, db.recipes[1].id)
    /\ id(list(db)[1]) = db.recipes[2].id

\* An id no call of the model adds.
Id7 == <<"7">>

(* C11  get(id) returns the not-found result None exactly when no recipes   *)
(* row has that id, in particular for an id that was never added or only    *)
(* added by a call that failed; otherwise it returns the recipe of that id, *)
(* read back from the stored date and JSON text.                            *)
C11_GetNotFound ==
    \A recipe_id \in RecipeIds \cup {Id7} :
        /\ recipe_id \notin added => get(db, recipe_id) = None
        /\ get(db, recipe_id) = None <=> RecipeRowsOf(db, recipe_id) = <<>>
        /\ get(db, recipe_id) # None => id(get(db, recipe_id)) = recipe_id

\* The only add of an id failed while the other id is stored: get finds the
\* stored one and reports the failed one and the unknown one as not found.
C11_Witness ==
    /\ last.op = "add" /\ last.raised # ""
    /\ id(LastRecipe) \notin added
    /\ get(db, id(LastRecipe)) = None
    /\ get(db, Id7) = None
    /\ \E recipe_id \in RecipeIds : get(db, recipe_id) # None

(* C12  Links mirror the current payload: for every stored recipe whose    *)
(* stored ingredient list has n entries, its recipe_ingredients rows are    *)
(* exactly one row per position 0..n-1, and the row at position i carries   *)
(* the canonical key, the quantity and the measure of entry i; no link of   *)
(* a previous, longer or differently ordered version survives.              *)
C12_LinksMirrorPayload ==
    \A r \in DOMAIN list(db) :
        LET recipe == list(db)[r]
            entries == Ingredients(recipe)
            links == LinksOf(db, id(recipe))
        IN  /\ Len(links) = Len(entries)
            /\ \A i \in DOMAIN entries :
                  \E l \in DOMAIN links :
                      /\ links[l].position = i - 1
                      /\ links[l].ingredient_key =
                            _canonical_ingredient_key(
                                dict_get(entries[i], "ingredient", PyDict(<<>>))).key
                      /\ links[l].quantity = dict_get(entries[i], "quantity", None)
                      /\ links[l].measure = dict_get(entries[i], "measure", None)

\* A recipe stored with two links was re-added without ingredients while
\* another recipe keeps its two links: none of the old links is left.
C12_Witness ==
    /\ last.op = "add" /\ last.raised = ""
    /\ Len(LinksOf(backup[1], id(LastRecipe))) = 2
    /\ Ingredients(LastRecipe) = <<>>
    /\ LinksOf(db, id(LastRecipe)) = <<>>
    /\ Len(db.recipe_ingredients) = 2

(* C13  The backup is a point-in-time copy taken before the mutation: a    *)
(* successful add or add_list leaves in the backup file exactly the tables  *)
(* as they were before the call (for add_list before its first element),    *)
(* and the file holds that one copy only, replacing the previous one.       *)
C13_BackupBeforeMutation ==
    [][(last'.op \in {"add", "add_list"} /\ last'.raised = "")
       => /\ backup' = <<db>>
          /\ (last'.op = "add" => db' = AfterAdd(backup'[1], last'.recipes[1]))
          /\ (last'.op = "add_list" => db' = AfterAdds(backup'[1], last'.recipes))]_vars

\* A successful add_list of two recipes on a store that already had a
\* backup: the backup is the state before the first element, which differs
\* from the previous backup, from the state between the elements and from
\* the state after the call.
C13_Witness ==
    /\ last.op = "add_list" /\ last.raised = "" /\ Len(last.recipes) = 2
    /\ backup # <<>> /\ backup[1].recipes # <<>>
    /\ AfterAdd(backup[1], last.recipes[1]) # backup[1]
    /\ AfterAdd(backup[1], last.recipes[1]) # db
    /\ db # backup[1]

\* v is a text with at least one character.
NonEmpty(v) == v.t = "str" /\ v.s # <<>>

\* The language indexes of the first non-empty title in the order en, de,
\* es, fr, pt: one index, or none.
FirstTitled(titles) ==
    {i \in DOMAIN Langs :
        /\ NonEmpty(dict_get(titles, Langs[i], None))
        /\ \A j \in 1..(i - 1) : ~NonEmpty(dict_get(titles, Langs[j], None))}

\* s with every maximal run of whitespace replaced by one underscore.
RECURSIVE ReplaceRunsFrom(_, _, _)
ReplaceRunsFrom(s, i, out) ==
    IF i > Len(s) THEN out
    ELSE IF ~IsSpace(s[i]) THEN ReplaceRunsFrom(s, i + 1, Append(out, s[i]))
    ELSE IF i > 1 /\ IsSpace(s[i - 1]) THEN ReplaceRunsFrom(s, i + 1, out)
    ELSE ReplaceRunsFrom(s, i + 1, Append(out, "_"))

ReplaceRuns(s) == ReplaceRunsFrom(s, 1, <<>>)

\* s without its leading and trailing whitespace.
Strip(s) ==
    LET inked == {i \in DOMAIN s : ~IsSpace(s[i])}
    IN  IF inked = {} THEN <<>>
        ELSE SubSeq(s, CHOOSE i \in inked : \A j \in inked : i <= j,
                       CHOOSE i \in inked : \A j \in inked : j <= i)

(* C14 as stated  Canonical key derivation: with a typ the key is the typ;  *)
(* otherwise it is the first non-empty localized title in the order en, de, *)
(* es, fr, pt, lower-cased, with every whitespace run replaced by a single  *)
(* underscore; with neither, the derivation raises the ValueError.          *)
C14_KeyAsStated ==
    last.op = "_canonical_ingredient_key" =>
        LET typ == dict_get(last.ingredient_details, "typ", None)
            titles == dict_get(last.ingredient_details, "localizedTitle", PyDict(<<>>))
        IN  IF NonEmpty(typ) THEN last.raised = "" /\ last.key = typ.s
            ELSE IF FirstTitled(titles) # {}
            THEN LET title == dict_item(titles, Langs[CHOOSE i \in FirstTitled(titles) : TRUE]).s
                 IN  last.raised = "" /\ last.key = ReplaceRuns(lower(title))
            ELSE last.raised = "ValueError"

(* C14  Canonical key derivation: with a typ the key is the typ; otherwise  *)
(* it is the first non-empty localized title in the order en, de, es, fr,   *)
(* pt, lower-cased, without its leading and trailing whitespace and with    *)
(* every whitespace run between words replaced by a single underscore; with *)
(* neither, the derivation raises the ValueError.  The other fields of the  *)
(* ingredient have no part in it.                                           *)
C14_KeyDerivation ==
    last.op = "_canonical_ingredient_key" =>
        LET typ == dict_get(last.ingredient_details, "typ", None)
            titles == dict_get(last.ingredient_details, "localizedTitle", PyDict(<<>>))
        IN  IF NonEmpty(typ) THEN last.raised = "" /\ last.key = typ.s
            ELSE IF FirstTitled(titles) # {}
            THEN LET title == dict_item(titles, Langs[CHOOSE i \in FirstTitled(titles) : TRUE]).s
                 IN  last.raised = "" /\ last.key = ReplaceRuns(Strip(lower(title)))
            ELSE last.raised = "ValueError"

\* An ingredient with an empty typ, a category and a plural form, whose
\* English title " Salt " comes last in its dict after a German one: the key
\* is "salt".
C14_Witness ==
    /\ last.op = "_canonical_ingredient_key"
    /\ dict_get(last.ingredient_details, "typ", None) = PyStr(<<>>)
    /\ dict_get(last.ingredient_details, "category", None) # None
    /\ dict_get(last.ingredient_details, "numberTitle", None) # None
    /\ dict_get(dict_get(last.ingredient_details, "localizedTitle", PyDict(<<>>)),
                "de", None) # None
    /\ dict_get(dict_get(last.ingredient_details, "localizedTitle", PyDict(<<>>)),
                "en", None) = PyStr(Text_Salt_padded)
    /\ last.raised = "" /\ last.key = Text_salt

\* The ingredient entries of the recipes of a call, in the order of their
\* upserts.
RECURSIVE AllEntries(_)
AllEntries(recipes) ==
    IF recipes = <<>> THEN <<>>
    ELSE Ingredients(Head(recipes)) \o AllEntries(Tail(recipes))

DetailsOf(entry) == dict_get(entry, "ingredient", PyDict(<<>>))

\* The five language values of one field of an ingredient, None where the
\* ingredient has no value.
LanguagesOf(ingredient_details, field) ==
    LET values == dict_get(ingredient_details, field, PyDict(<<>>))
    IN  [lang \in {"en", "de", "es", "fr", "pt"} |-> dict_get(values, lang, None)]

\* The stored row holds exactly the fields of the ingredient details.
RowIs(row, ingredient_details) ==
    /\ row.typ = dict_get(ingredient_details, "typ", None)
    /\ row.category = dict_get(ingredient_details, "category", None)
    /\ LanguagesOf(ingredient_details, "localizedTitle") =
          [en |-> row.title_en, de |-> row.title_de, es |-> row.title_es,
           fr |-> row.title_fr, pt |-> row.title_pt]
    /\ LanguagesOf(ingredient_details, "numberTitle") =
          [en |-> row.number_title_en, de |-> row.number_title_de,
           es |-> row.number_title_es, fr |-> row.number_title_fr,
           pt |-> row.number_title_pt]
    /\ LanguagesOf(ingredient_details, "uncountableTitle") =
          [en |-> row.uncountable_title_en, de |-> row.uncountable_title_de,
           es |-> row.uncountable_title_es, fr |-> row.uncountable_title_fr,
           pt |-> row.uncountable_title_pt]

(* C15  Ingredient upsert is a full-column replace: after a successful add  *)
(* or add_list, the stored row of every key the call upserted has exactly   *)
(* the typ, category, localized titles, number titles and uncountable       *)
(* titles of the last ingredient of the call with that key; a field that    *)
(* ingredient lacks is NULL, whatever the row held before.                  *)
C15_FullColumnReplace ==
    (last.op \in {"add", "add_list"} /\ last.raised = "") =>
        LET entries == AllEntries(last.recipes)
            KeyAt(i) == _canonical_ingredient_key(DetailsOf(entries[i])).key
        IN  \A i \in DOMAIN entries :
                (\A j \in DOMAIN entries : j > i => KeyAt(j) # KeyAt(i))
                => \E r \in DOMAIN db.ingredients :
                      /\ db.ingredients[r].key = KeyAt(i)
                      /\ RowIs(db.ingredients[r], DetailsOf(entries[i]))

\* The row of key "tomato" had a category, a German title and a German
\* plural form; the ingredient upserted last under that key has none of
\* them, and the three columns are NULL.
C15_Witness ==
    /\ last.op = "add" /\ last.raised = ""
    /\ \E r \in DOMAIN backup[1].ingredients :
          /\ backup[1].ingredients[r].key = Text_tomato
          /\ backup[1].ingredients[r].number_title_de = PyStr(Text_Tomaten)
          /\ backup[1].ingredients[r].category = PyStr(Text_vegetable)
          /\ backup[1].ingredients[r].title_de = PyStr(Text_Tomate)
    /\ \E r \in DOMAIN db.ingredients :
          /\ db.ingredients[r].key = Text_tomato
          /\ db.ingredients[r].number_title_de = None
          /\ db.ingredients[r].category = None
          /\ db.ingredients[r].title_de = None
          /\ db.ingredients[r].number_title_en = PyStr(<<>>)

\* The number title columns of a stored ingredient row.
NumberTitles(row) ==
    {row.number_title_en, row.number_title_de, row.number_title_es,
     row.number_title_fr, row.number_title_pt}

\* The record list_ingredients returns for the key.
Listed(conn, key) ==
    list_ingredients(conn)[CHOOSE i \in DOMAIN list_ingredients(conn) :
                               list_ingredients(conn)[i].key = key]

(* C16  list_ingredients returns number_title as absent for an ingredient   *)
(* with no plural form recorded in any language, and its result tells such  *)
(* an ingredient from one whose plural form was recorded as an empty        *)
(* string: the two never have the same number_title.                        *)
C16_EmptyPluralDistinguished ==
    \A a, b \in DOMAIN db.ingredients :
        LET unrecorded == db.ingredients[a]
            recorded == db.ingredients[b]
        IN  /\ NumberTitles(unrecorded) = {None}
                => Listed(db, unrecorded.key).number_title = None
            /\ (NumberTitles(unrecorded) = {None} /\ PyStr(<<>>) \in NumberTitles(recorded))
                => Listed(db, unrecorded.key).number_title
                       # Listed(db, recorded.key).number_title

(* C20  add_list is all-or-nothing: when the element at index k fails,     *)
(* the three tables equal their contents before the call, so neither the    *)
(* elements before k nor the ingredients they introduced are stored.        *)
C20_AddListAllOrNothing ==
    [][(last'.op = "add_list" /\ last'.raised # "")
       => /\ db'.recipes = db.recipes
          /\ db'.ingredients = db.ingredients
          /\ db'.recipe_ingredients = db.recipe_ingredients]_vars

\* add_list failed at index 1 after a well-formed first element with
\* ingredients, on a store that holds another recipe: the first element's
\* recipe row, its links and its ingredients are all absent.
C20_Witness ==
    /\ last.op = "add_list" /\ last.raised = "ValueError" /\ last.index = 1
    /\ ~HasMalformed(last.recipes[1])
    /\ Ingredients(last.recipes[1]) # <<>>
    /\ db.recipes # <<>>
    /\ get(db, id(last.recipes[1])) = None
    /\ LinksOf(db, id(last.recipes[1])) = <<>>
    /\ db.ingredients = <<>>

(* C18  If the backup copy fails during add or add_list, the call fails   *)
(* before any write: the recipes, ingredients and recipe_ingredients tables *)
(* are unchanged, so the tables never change in a call whose backup step    *)
(* did not complete.                                                        *)
C18_NoWriteWithoutBackup ==
    [][(last'.op \in {"add", "add_list"} /\ last'.raised = "OSError")
       => /\ db'.recipes = db.recipes
          /\ db'.ingredients = db.ingredients
          /\ db'.recipe_ingredients = db.recipe_ingredients]_vars

\* The copy failed in an add_list of two well-formed recipes that would have
\* changed the stored tables; the backup file is torn, the tables are those
\* of the earlier successful call.
C18_Witness ==
    /\ last.op = "add_list" /\ last.raised = "OSError"
    /\ Len(last.recipes) = 2 /\ WellFormed(last.recipes)
    /\ db.recipes # <<>>
    /\ AfterAdds(db, last.recipes) # db
    /\ backup = <<TornCopy>>

(* C19  Initialization is idempotent: constructing the repository on a base *)
(* directory that holds a database leaves every row of the three tables and *)
(* the backup file unchanged; constructing it on a file without tables      *)
(* gives the three empty tables, and constructing it again changes nothing. *)
C19_InitIdempotent ==
    [][last'.op = "__init__"
       => /\ db'.recipes = db.recipes
          /\ db'.ingredients = db.ingredients
          /\ db'.recipe_ingredients = db.recipe_ingredients
          /\ backup' = backup
          /\ _ensure_schema(db') = db'
          /\ _ensure_schema(NoTables) = EmptyDb]_vars

\* The repository was constructed on a store whose three tables have rows
\* and whose backup file holds an earlier state.
C19_Witness ==
    /\ last.op = "__init__"
    /\ db.recipes # <<>> /\ db.ingredients # <<>> /\ db.recipe_ingredients # <<>>
    /\ backup # <<>> /\ backup[1] # TornCopy /\ backup[1] # db
    /\ backup[1].recipes # <<>>

ReadOps == {"list", "get", "list_ingredients", "needs_to_be_synced"}

\* What the read operation returns on the tables.
Read(op, arg, conn) ==
    CASE op = "list" -> list(conn)
      [] op = "get" -> get(conn, arg)
      [] op = "list_ingredients" -> list_ingredients(conn)
      [] op = "needs_to_be_synced" -> needs_to_be_synced(conn, arg)

\* The complete state after the call: the tables the whole call leaves.
AfterCall(database, op, recipes) ==
    IF op = "add"
    THEN AfterAdd(database, recipes[1])
    ELSE _connect(database, UpsertRecipes(database, recipes, 0))

(* C17  No partial write is visible to readers: a list, get,                *)
(* list_ingredients or needs_to_be_synced call made at any point of an add  *)
(* or add_list in progress returns what it returns on the complete state    *)
(* before that call or on the complete state after it; the committed tables *)
(* change only when the call leaves its with block, and then to the         *)
(* complete state after the call.                                           *)
C17_NoPartialRead ==
    [][/\ last'.op \in ReadOps =>
            last'.result \in
                {Read(last'.op, last'.arg, db),
                 Read(last'.op, last'.arg,
                      IF txn = <<>> THEN db
                      ELSE AfterCall(db, txn[1].op, txn[1].recipes))}
       /\ (txn # <<>> /\ txn' = <<>>) => db' = AfterCall(db, txn[1].op, txn[1].recipes)
       /\ txn' # <<>> => db' = db]_vars

\* list() was called on a store with a recipe after the first recipe of an
\* add_list of two was fully written on the writer's connection: the
\* writer's tables would list neither what was listed before the call nor
\* what is listed after it, and list() returned what was listed before.
C17_Witness ==
    /\ last.op = "list"
    /\ txn # <<>> /\ txn[1].op = "add_list" /\ txn[1].index = 1
    /\ Len(txn[1].recipes) = 2
    /\ db.recipes # <<>>
    /\ list(txn[1].conn) # list(db)
    /\ list(txn[1].conn) # list(AfterCall(db, txn[1].op, txn[1].recipes))
    /\ last.result = list(db)

\* The keys of the rows list_ingredients returns.
ListedKeys(conn) ==
    LET listed == list_ingredients(conn)
    IN  {listed[i].key : i \in DOMAIN listed}

(* C21  Ingredient rows are never removed: across every successful add or   *)
(* add_list the set of stored ingredient keys grows or stays equal, so an   *)
(* ingredient that no recipe refers to any more after a re-add is still     *)
(* returned by list_ingredients.                                            *)
C21_IngredientsNeverRemoved ==
    [][(last'.op \in {"add", "add_list"} /\ last'.raised = "")
       => /\ {db.ingredients[i].key : i \in DOMAIN db.ingredients}
                \subseteq {db'.ingredients[i].key : i \in DOMAIN db'.ingredients}
          /\ ListedKeys(db) \subseteq ListedKeys(db')
          /\ Len(db.ingredients) <= Len(db'.ingredients)]_vars

\* The only stored recipe was re-added without ingredients: no link is left
\* and the two ingredients it had are still listed.
C21_Witness ==
    /\ last.op = "add" /\ last.raised = ""
    /\ Ingredients(LastRecipe) = <<>>
    /\ Len(LinksOf(backup[1], id(LastRecipe))) = 2
    /\ db.recipe_ingredients = <<>>
    /\ ListedKeys(db) = ListedKeys(backup[1])
    /\ Cardinality(ListedKeys(db)) = 2

===========================================================================
